---- MODULE Spec2Model ----
(***************************************************************************)
(* Model of logtest2 (src/src/main.rs, src/src/errors.rs): a command-line  *)
(* word counter that reports its failures through the Errors enumeration.  *)
(* Spec   : one invocation of main() over a bounded file system.           *)
(* SpecWS : the tokenisation of main()'s read loop applied to a text and   *)
(*          to the same text with one whitespace character inserted.       *)
(***************************************************************************)
EXTENDS Integers, Sequences, FiniteSets, TLC

VARIABLES args, fs, pc, idx, wordcount, lines, log, result, exitStatus,
          stdout, stderr, openAttempts, checked,
          text, variant, insPos, textCount, variantCount, wpc

mainVars == <<args, fs, pc, idx, wordcount, lines, log, result, exitStatus,
              stdout, stderr, openAttempts, checked>>
wsVars == <<text, variant, insPos, textCount, variantCount, wpc>>
vars == <<mainVars, wsVars>>

(* ------------------------------ bounds --------------------------------- *)
MaxLen == 2
MaxArgs == 2
MaxText == 5

(* ------------------------- the environment ----------------------------- *)
\* Paths that may appear on the command line.
Files == {"a", "b"}
\* A file that cannot be opened.
Missing == <<"ENOENT">>
\* Bytes of a file: a letter, whitespace, and a byte sequence that is not
\* valid UTF-8 (for which BufRead::lines yields Err).
BAD == "\\xFF"
FileChars == {"x", " ", "\n", BAD}
TextChars == {"x", " ", "\t", "\n", "\r"}
WsChars == {" ", "\t", "\n", "\r"}

SeqsUpTo(S, n) == UNION {[1..k -> S] : k \in 0..n}

(* --------------------------- errors.rs --------------------------------- *)
DisplaySuccess(count, fname) ==
    <<"SUCCESS!  We found ", ToString(count), " words in ", fname, ".">>

DisplayEmptySource(fname) == <<"Source file contains no data: ", fname>>

DisplayFileNotFoundSwapped(fname) == <<"Source file contains no data: ", fname>>

DisplayFileNotFound(fname) == <<"File not found: ", fname>>

DisplayReadError == <<"Read error">>

DisplayMissingArgOld(name) == <<"Argument ", name, " is required.">>

DisplayMissingArg(name) == <<"A '", name, "' argument is required.">>

(* ------------------------ main.rs: helpers ----------------------------- *)
\* char::is_whitespace, as used by str::split_whitespace.
IsWhitespaceSpaceOnly(c) == c = " "

IsWhitespace(c) == c \in WsChars

\* line.split_whitespace() yields one item per maximal run of
\* non-whitespace characters; the loop body runs once per item.
WordsInLine(line) ==
    Cardinality({i \in 1..Len(line) :
                    /\ ~IsWhitespace(line[i])
                    /\ (i = 1 \/ IsWhitespace(line[i-1]))})

FirstNewline(s) ==
    IF \E i \in 1..Len(s) : s[i] = "\n"
    THEN CHOOSE i \in 1..Len(s) : s[i] = "\n" /\ \A j \in 1..(i-1) : s[j] # "\n"
    ELSE 0

\* BufRead::lines reads up to and including each "\n"; a final piece
\* without "\n" is a line too, an empty remainder is not.
RECURSIVE RawLines(_)
RawLines(s) ==
    IF s = <<>> THEN <<>>
    ELSE LET n == FirstNewline(s) IN
         IF n = 0 THEN <<s>>
         ELSE <<SubSeq(s, 1, n)>> \o RawLines(SubSeq(s, n + 1, Len(s)))

\* lines() drops the trailing "\n" and then a "\r" that preceded it.
StripEol(raw) ==
    IF raw # <<>> /\ raw[Len(raw)] = "\n"
    THEN LET s == SubSeq(raw, 1, Len(raw) - 1) IN
         IF s # <<>> /\ s[Len(s)] = "\r" THEN SubSeq(s, 1, Len(s) - 1) ELSE s
    ELSE raw

\* The item lines() yields for a raw line: Err when it is not valid UTF-8.
LineIsErrNever(raw) == FALSE

LineIsErr(raw) == \E i \in 1..Len(raw) : raw[i] = BAD

\* env::args().len() < 2, where env::args() is the program name
\* followed by the arguments.
MissingArgumentOffByOne(a) == Len(a) + 1 < 1

MissingArgument(a) == Len(a) + 1 < 2

\* wordcount += 1, once per word of the line.
AccumulateOverwrite(wc, n) == n

Accumulate(wc, n) == wc + n

\* The loop variable of `for filename in env::args().skip(1)`.
FilenameAtFirst(a, i) == a[1]

FilenameAt(a, i) == a[i]

\* The read loop of main() on a file whose lines all decode.
RECURSIVE CountLines(_, _)
CountLines(ls, wc) ==
    IF ls = <<>> THEN wc
    ELSE CountLines(Tail(ls), Accumulate(wc, WordsInLine(StripEol(Head(ls)))))

CountWords(content) == CountLines(RawLines(content), 0)

Pending == [ok |-> TRUE, variant |-> "Pending", msg |-> <<>>]
Ok == [ok |-> TRUE, variant |-> "Ok", msg |-> <<>>]
Err(v, m) == [ok |-> FALSE, variant |-> v, msg |-> m]

Record(sev, m) == [sev |-> sev, msg |-> m]

(* ----------------------------- main() ---------------------------------- *)
WsIdle ==
    /\ text = <<>>
    /\ variant = <<>>
    /\ insPos = 0
    /\ textCount = 0
    /\ variantCount = 0
    /\ wpc = "idle"

Init ==
    /\ args \in SeqsUpTo(Files, MaxArgs)
    /\ fs \in [Files -> {Missing} \cup SeqsUpTo(FileChars, MaxLen)]
    /\ pc = "start"
    /\ idx = 0
    /\ wordcount = 0
    /\ lines = <<>>
    /\ log = <<>>
    /\ result = Pending
    /\ exitStatus = -1
    /\ stdout = <<>>
    /\ stderr = <<>>
    /\ openAttempts = <<>>
    /\ checked = <<>>
    /\ WsIdle

\* println! banner, log4rs initialisation and the five level samples.
Startup ==
    /\ pc = "start"
    /\ stdout' = Append(stdout, <<"Starting logtest2">>)
    /\ log' = log \o <<Record("error", <<"msg1">>), Record("warn", <<"msg2">>),
                       Record("info", <<"msg3">>), Record("debug", <<"msg4">>),
                       Record("trace", <<"msg5">>)>>
    /\ pc' = "validate"
    /\ UNCHANGED <<args, fs, idx, wordcount, lines, result, exitStatus,
                   stderr, openAttempts, checked, wsVars>>

ValidateArgs ==
    /\ pc = "validate"
    /\ IF MissingArgument(args)
       THEN /\ log' = Append(log, Record("error", DisplayMissingArg("filename")))
            /\ result' = Err("MissingArg", DisplayMissingArg("filename"))
            /\ pc' = "exit"
            /\ UNCHANGED <<idx, wordcount>>
       ELSE /\ wordcount' = 0
            /\ idx' = 1
            /\ pc' = IF 1 <= Len(args) THEN "open" ELSE "return"
            /\ UNCHANGED <<log, result>>
    /\ UNCHANGED <<args, fs, lines, exitStatus, stdout, stderr,
                   openAttempts, checked, wsVars>>

OpenFile ==
    /\ pc = "open"
    /\ openAttempts' = Append(openAttempts, idx)
    /\ LET filename == FilenameAt(args, idx) IN
       IF fs[filename] = Missing
       THEN /\ result' = Err("FileNotFound", DisplayFileNotFound(filename))
            /\ pc' = "exit"
            /\ UNCHANGED lines
       ELSE /\ lines' = RawLines(fs[filename])
            /\ pc' = "read"
            /\ UNCHANGED result
    /\ UNCHANGED <<args, fs, idx, wordcount, log, exitStatus, stdout, stderr,
                   checked, wsVars>>

ReadLine ==
    /\ pc = "read"
    /\ IF lines = <<>>
       THEN /\ pc' = "check"
            /\ UNCHANGED <<lines, wordcount, result>>
       ELSE IF LineIsErr(Head(lines))
       THEN /\ result' = Err("ReadError", DisplayReadError)
            /\ pc' = "exit"
            /\ lines' = Tail(lines)
            /\ UNCHANGED wordcount
       ELSE /\ wordcount' = Accumulate(wordcount, WordsInLine(StripEol(Head(lines))))
            /\ lines' = Tail(lines)
            /\ UNCHANGED <<pc, result>>
    /\ UNCHANGED <<args, fs, idx, log, exitStatus, stdout, stderr,
                   openAttempts, checked, wsVars>>

CheckEmpty ==
    /\ pc = "check"
    /\ checked' = Append(checked, idx)
    /\ IF wordcount = 0
       THEN /\ result' = Err("EmptySource", DisplayEmptySource(FilenameAt(args, idx)))
            /\ pc' = "exit"
       ELSE /\ pc' = "report"
            /\ UNCHANGED result
    /\ UNCHANGED <<args, fs, idx, wordcount, lines, log, exitStatus, stdout,
                   stderr, openAttempts, wsVars>>

ReportSuccess ==
    /\ pc = "report"
    /\ log' = Append(log, Record("info", DisplaySuccess(wordcount, FilenameAt(args, idx))))
    /\ idx' = idx + 1
    /\ pc' = IF idx + 1 <= Len(args) THEN "open" ELSE "return"
    /\ UNCHANGED <<args, fs, wordcount, lines, result, exitStatus, stdout,
                   stderr, openAttempts, checked, wsVars>>

ReturnOk ==
    /\ pc = "return"
    /\ result' = Ok
    /\ pc' = "exit"
    /\ UNCHANGED <<args, fs, idx, wordcount, lines, log, exitStatus, stdout,
                   stderr, openAttempts, checked, wsVars>>

\* The runtime's handling of main's Result: Err is printed to standard
\* error and the status is 1, Ok gives status 0.
Exit ==
    /\ pc = "exit"
    /\ IF result.ok
       THEN /\ exitStatus' = 0
            /\ UNCHANGED stderr
       ELSE /\ exitStatus' = 1
            /\ stderr' = Append(stderr, <<"Error: ">> \o result.msg)
    /\ pc' = "done"
    /\ UNCHANGED <<args, fs, idx, wordcount, lines, log, result, stdout,
                   openAttempts, checked, wsVars>>

Next ==
    \/ Startup
    \/ ValidateArgs
    \/ OpenFile
    \/ ReadLine
    \/ CheckEmpty
    \/ ReportSuccess
    \/ ReturnOk
    \/ Exit

Spec == Init /\ [][Next]_vars

(* ------------------ tokenisation under whitespace ---------------------- *)
MainIdle ==
    /\ args = <<>>
    /\ fs = [f \in Files |-> Missing]
    /\ pc = "idle"
    /\ idx = 0
    /\ wordcount = 0
    /\ lines = <<>>
    /\ log = <<>>
    /\ result = Pending
    /\ exitStatus = -1
    /\ stdout = <<>>
    /\ stderr = <<>>
    /\ openAttempts = <<>>
    /\ checked = <<>>

InsertAt(s, p, c) == SubSeq(s, 1, p) \o <<c>> \o SubSeq(s, p + 1, Len(s))

InitWS ==
    /\ MainIdle
    /\ text \in SeqsUpTo(TextChars, MaxText)
    /\ variant = <<>>
    /\ insPos = 0
    /\ textCount = 0
    /\ variantCount = 0
    /\ wpc = "text"

CountText ==
    /\ wpc = "text"
    /\ textCount' = CountWords(text)
    /\ wpc' = "insert"
    /\ UNCHANGED <<text, variant, insPos, variantCount, mainVars>>

InsertWhitespace ==
    /\ wpc = "insert"
    /\ \E p \in 0..Len(text), c \in WsChars :
          /\ variant' = InsertAt(text, p, c)
          /\ insPos' = p
    /\ wpc' = "variant"
    /\ UNCHANGED <<text, textCount, variantCount, mainVars>>

CountVariant ==
    /\ wpc = "variant"
    /\ variantCount' = CountWords(variant)
    /\ wpc' = "compared"
    /\ UNCHANGED <<text, variant, insPos, textCount, mainVars>>

NextWS ==
    \/ CountText
    \/ InsertWhitespace
    \/ CountVariant

SpecWS == InitWS /\ [][NextWS]_vars

(* ------------------------- observed behaviour -------------------------- *)
\* The file exists and every line of it decodes.
Readable(c) == c # Missing /\ \A i \in 1..Len(c) : c[i] # BAD

HasUndecodableLine(c) == c # Missing /\ \E i \in 1..Len(c) : c[i] = BAD

\* Number of whitespace-delimited tokens of a whole file.
TokensOf(c) ==
    Cardinality({i \in 1..Len(c) :
                    c[i] \notin WsChars /\ (i = 1 \/ c[i-1] \in WsChars)})

RECURSIVE TokensUpTo(_)
TokensUpTo(k) ==
    IF k = 0 THEN 0 ELSE TokensUpTo(k - 1) + TokensOf(fs[args[k]])

IsSuccessRecord(r) ==
    r.sev = "info" /\ Len(r.msg) = 5 /\ r.msg[1] = "SUCCESS!  We found "

\* The Success messages logged so far, in order.
SuccessMsgs ==
    LET recs == SelectSeq(log, IsSuccessRecord)
    IN [i \in 1..Len(recs) |-> recs[i].msg]

\* The error-severity records logged after the startup samples.
ErrorMsgs ==
    LET recs == SelectSeq(log, LAMBDA r : r.sev = "error" /\ r.msg # <<"msg1">>)
    IN [i \in 1..Len(recs) |-> recs[i].msg]

Logged(m) == \E i \in 1..Len(log) : log[i].msg = m

Attempted(k) == \E j \in 1..Len(openAttempts) : openAttempts[j] = k

Checked(k) == \E j \in 1..Len(checked) : checked[j] = k

AllGood ==
    /\ args # <<>>
    /\ \A i \in 1..Len(args) :
          Readable(fs[args[i]]) /\ TokensOf(fs[args[i]]) > 0

\* The run ended while processing the k-th filename.
EndedAt(k) == pc = "done" /\ k \in 1..Len(args) /\ idx = k

(* ------------------------------- C1 ------------------------------------ *)
\* C1: when every argument file opens, decodes and has at least one token,
\* the run exits with status 0 and logs one Success message per file, the
\* i-th carrying the i-th filename and the token count of that file alone.
C1_PerFileCounts ==
    (pc = "done" /\ AllGood) =>
        /\ exitStatus = 0
        /\ Len(SuccessMsgs) = Len(args)
        /\ \A i \in 1..Len(args) :
              SuccessMsgs[i] = <<"SUCCESS!  We found ",
                                 ToString(TokensOf(fs[args[i]])),
                                 " words in ", args[i], ".">>

(* ------------------------------- C2 ------------------------------------ *)
\* C2: a file with zero tokens, at any position of the argument sequence,
\* once reached ends the run in EmptySource naming its path, with a failure
\* status and no Success message for it.
C2_EmptyAtAnyPosition ==
    pc = "done" =>
        \A k \in 1..Len(args) :
            (Attempted(k) /\ Readable(fs[args[k]]) /\ TokensOf(fs[args[k]]) = 0) =>
                /\ result = Err("EmptySource",
                                <<"Source file contains no data: ", args[k]>>)
                /\ exitStatus # 0
                /\ Len(SuccessMsgs) < k

(* ------------------------------- C3 ------------------------------------ *)
\* C3: with no arguments the run logs the MissingArgument message for
\* "filename" at error severity, ends with a failure status, and never
\* opens or reads a file.
C3_MissingArgument ==
    args = <<>> =>
        /\ openAttempts = <<>>
        /\ lines = <<>>
        /\ checked = <<>>
        /\ pc \in {"exit", "done"} =>
              \E i \in 1..Len(log) :
                 log[i] = Record("error", <<"A '", "filename", "' argument is required.">>)
        /\ pc = "done" => exitStatus # 0

C3_Witness ==
    /\ pc = "done"
    /\ args = <<>>
    /\ exitStatus = 1
    /\ result.variant = "MissingArg"

C5_ExitZeroIff ==
    pc = "done" =>
        (exitStatus = 0 <=> (AllGood /\ Len(SuccessMsgs) = Len(args)))

OutsideToken(s, p) ==
    \/ p = 0
    \/ p = Len(s)
    \/ s[p] \in WsChars
    \/ s[p + 1] \in WsChars

HelloWorldFoo == <<"x", " ", "x", "\n", "x">>

\* C7: inserting a whitespace character between tokens, or at a line start
\* or end, leaves the count of the text unchanged; a text of the shape
\* "hello world\nfoo" counts 3.
C7_WhitespaceInsensitive ==
    /\ (wpc = "compared" /\ OutsideToken(text, insPos)) => variantCount = textCount
    /\ (wpc \in {"insert", "variant", "compared"} /\ text = HelloWorldFoo) => textCount = 3

C7_Witness ==
    /\ wpc = "compared"
    /\ text = HelloWorldFoo
    /\ insPos = 2
    /\ variant[3] = "\t"
    /\ variantCount = 3

(* ------------------------------- C8 ------------------------------------ *)
\* C8: files are opened in command-line order, file i+1 only after file i
\* was read to its end and its Success message logged; the filenames of
\* the Success messages form a prefix of the argument sequence.
C8_InOrder ==
    /\ \A j \in 1..Len(openAttempts) : openAttempts[j] = j
    /\ Len(openAttempts) <= Len(SuccessMsgs) + 1
    /\ Len(openAttempts) <= Len(checked) + 1
    /\ Len(SuccessMsgs) <= Len(args)
    /\ \A i \in 1..Len(SuccessMsgs) : SuccessMsgs[i][4] = args[i]

C8_Witness ==
    /\ pc = "done"
    /\ Len(args) = 2
    /\ args[1] # args[2]
    /\ Len(SuccessMsgs) = 2
    /\ openAttempts = <<1, 2>>

(* ------------------------------- C9 ------------------------------------ *)
C9_AtEnd ==
    pc = "done" =>
        \A k \in 1..Len(args) :
            (Attempted(k) /\ HasUndecodableLine(fs[args[k]])) =>
                /\ result = Err("ReadError", <<"Read error">>)
                /\ exitStatus # 0
                /\ Len(SuccessMsgs) = k - 1
                /\ openAttempts[Len(openAttempts)] = k
                /\ ~Checked(k)

C9_NoFurtherStep ==
    result.variant = "ReadError" =>
        /\ pc = "exit"
        /\ pc' = "done"
        /\ UNCHANGED <<args, fs, idx, wordcount, lines, log, result, stdout,
                       openAttempts, checked>>

\* C9: a line-read failure in the k-th file ends the run in ReadError with
\* a failure status: no Success message for file k, no later file opened,
\* no empty-source check for file k, and the only step that follows is the
\* process exit.
C9_ReadErrorTerminal == []C9_AtEnd /\ [][C9_NoFurtherStep]_vars

C9_Witness ==
    /\ pc = "done"
    /\ result.variant = "ReadError"
    /\ Len(args) = 2
    /\ idx = 2
    /\ Len(SuccessMsgs) = 1

(* ------------------------------- C10 ----------------------------------- *)
C10_Counts ==
    /\ \A k \in 1..Len(SuccessMsgs) :
          SuccessMsgs[k] = <<"SUCCESS!  We found ", ToString(TokensUpTo(k)),
                             " words in ", args[k], ".">>
    /\ result.variant = "EmptySource" => idx = 1
    /\ (pc = "done" /\ idx > 1) => result.variant # "EmptySource"

\* C10: the accumulator is never reset between files: it never decreases,
\* the count of the k-th Success message is the total number of tokens of
\* files 1..k, and EmptySource occurs only while the first file is
\* processed.
C10_Accumulates == []C10_Counts /\ [][wordcount' >= wordcount]_vars

C10_Witness ==
    /\ pc = "done"
    /\ Len(SuccessMsgs) = 2
    /\ Readable(fs[args[2]])
    /\ TokensOf(fs[args[2]]) = 0
    /\ exitStatus = 0

====
